---- MODULE Spec2Model ----
(***************************************************************************)
(* personal_dash backend (backend/main.go): a net/http server over a       *)
(* single-connection SQLite store with two tables, categories and links.   *)
(*                                                                         *)
(* Strings are sequences of byte values, so that trimming, lower-casing,   *)
(* comparing, splitting, parsing and formatting are computed, not assumed. *)
(***************************************************************************)
EXTENDS Integers, Sequences, FiniteSets, TLC

VARIABLES
    categories,   \* rows of table categories: [id, name]
    links,        \* rows of table links: [id, name, url, category_id]
    catSeq,       \* AUTOINCREMENT high-water mark of categories
    linkSeq,      \* AUTOINCREMENT high-water mark of links
    lastReq,      \* the request answered last (what loggingMiddleware logs)
    fault,        \* the store statement that failed while serving it
    status,       \* HTTP status written for it (0: none)
    view,         \* dashboardData.Categories handed to the template for it
    pc,           \* per worker: position in its handler
    req,          \* per worker: the request it serves
    cancelled,    \* per worker: the client has disconnected (r.Context() done)
    connOwner,    \* the worker holding the pool's single connection
    txWork,       \* the open transaction's working copy of the tables
    catSnap,      \* per worker: categories slice and categoryMap after the first query
    resp          \* per worker: HTTP status written to its client (0: none yet)

storeVars == <<categories, links, catSeq, linkSeq>>
seqVars   == <<lastReq, fault, status, view>>
concVars  == <<pc, req, cancelled, connOwner, txWork, catSnap, resp>>
vars      == <<categories, links, catSeq, linkSeq, lastReq, fault, status, view,
               pc, req, cancelled, connOwner, txWork, catSnap, resp>>

----------------------------------------------------------------------------
(* Bounds *)

\* Total number of rows ever inserted (categories plus links).
MaxRows == 4

----------------------------------------------------------------------------
(* Strings *)

s_delete == <<100, 101, 108, 101, 116, 101>>
s_update == <<117, 112, 100, 97, 116, 101>>
s_unique == <<117, 110, 105, 113, 117, 101>>

\* unicode.IsSpace restricted to ASCII
IsSpace(c) == c \in {9, 10, 11, 12, 13, 32}

RECURSIVE TrimLeft(_)
TrimLeft(s) ==
    IF s # <<>> /\ IsSpace(Head(s)) THEN TrimLeft(Tail(s)) ELSE s

RECURSIVE TrimRight(_)
TrimRight(s) ==
    IF s # <<>> /\ IsSpace(s[Len(s)])
    THEN TrimRight(SubSeq(s, 1, Len(s) - 1))
    ELSE s

\* strings.TrimSpace
TrimSpace(s) == TrimRight(TrimLeft(s))

\* strings.ToLower (ASCII)
ToLower(s) ==
    [i \in 1..Len(s) |-> IF s[i] >= 65 /\ s[i] <= 90 THEN s[i] + 32 ELSE s[i]]

\* Go's < on strings: byte-wise lexicographic
RECURSIVE StrLess(_, _)
StrLess(a, b) ==
    IF b = <<>> THEN FALSE
    ELSE IF a = <<>> THEN TRUE
    ELSE IF Head(a) # Head(b) THEN Head(a) < Head(b)
    ELSE StrLess(Tail(a), Tail(b))

\* strings.Contains
Contains(s, sub) ==
    \E i \in 0..(Len(s) - Len(sub)) : SubSeq(s, i + 1, i + Len(sub)) = sub

RECURSIVE TrimSlashLeft(_)
TrimSlashLeft(s) ==
    IF s # <<>> /\ Head(s) = 47 THEN TrimSlashLeft(Tail(s)) ELSE s

RECURSIVE TrimSlashRight(_)
TrimSlashRight(s) ==
    IF s # <<>> /\ s[Len(s)] = 47
    THEN TrimSlashRight(SubSeq(s, 1, Len(s) - 1))
    ELSE s

\* strings.Trim(path, "/")
TrimSlashes(s) == TrimSlashRight(TrimSlashLeft(s))

\* strings.Split(s, "/"): always at least one part, possibly empty
RECURSIVE SplitFrom(_, _, _)
SplitFrom(s, cur, acc) ==
    IF s = <<>> THEN Append(acc, cur)
    ELSE IF Head(s) = 47 THEN SplitFrom(Tail(s), <<>>, Append(acc, cur))
    ELSE SplitFrom(Tail(s), Append(cur, Head(s)), acc)

SplitSlash(s) == SplitFrom(s, <<>>, <<>>)

IsDigit(c) == c >= 48 /\ c <= 57

RECURSIVE DigitsValue(_, _)
DigitsValue(s, acc) ==
    IF s = <<>> THEN acc ELSE DigitsValue(Tail(s), acc * 10 + (Head(s) - 48))

\* strconv.ParseInt(s, 10, 64): optional sign, then one or more digits
ParseInt(s) ==
    LET signed == s # <<>> /\ Head(s) \in {43, 45}
        body   == IF signed THEN Tail(s) ELSE s
    IN  IF body = <<>> \/ \E i \in 1..Len(body) : ~IsDigit(body[i])
        THEN [ok |-> FALSE, val |-> 0]
        ELSE [ok |-> TRUE,
              val |-> IF signed /\ Head(s) = 45
                      THEN 0 - DigitsValue(body, 0)
                      ELSE DigitsValue(body, 0)]

RECURSIVE FormatNat(_)
FormatNat(n) ==
    IF n < 10 THEN <<48 + n>> ELSE Append(FormatNat(n \div 10), 48 + (n % 10))

\* strconv.FormatInt(n, 10)
FormatInt(n) == IF n < 0 THEN <<45>> \o FormatNat(0 - n) ELSE FormatNat(n)

----------------------------------------------------------------------------
(* The store: SQLite behind database/sql *)

\* Error texts of the driver, as far as the handlers inspect them.
err_none   == <<>>
err_unique == <<85, 78, 73, 81, 85, 69>>
err_io     == <<73, 79>>

\* sql.Open is given the bare file path: no _pragma=foreign_keys(1), and
\* SQLite does not enforce FOREIGN KEY clauses unless the connection asks.
ForeignKeysEnabled == FALSE

\* name TEXT NOT NULL UNIQUE: the default collation BINARY compares bytes
UniqueViolationOff(cats, name) == FALSE

UniqueViolation(cats, name) == \E c \in cats : c.name = name

\* FOREIGN KEY(category_id) REFERENCES categories(id)
ForeignKeyViolation(cats, categoryID) ==
    ForeignKeysEnabled /\ ~(\E c \in cats : c.id = categoryID)

\* INSERT INTO categories(name) VALUES(?)
InsertCategory(cats, seq, name) ==
    IF UniqueViolation(cats, name)
    THEN [err |-> err_unique, rows |-> cats, seq |-> seq]
    ELSE [err |-> err_none,
          rows |-> cats \cup {[id |-> seq + 1, name |-> name]},
          seq |-> seq + 1]

\* INSERT INTO links(name, url, category_id) VALUES(?, ?, ?)
InsertLinkLostUpdate(cats, lnks, seq, name, url, categoryID) ==
    [err |-> err_none,
     rows |-> {l \in lnks : l.id # seq + 1}
              \cup {[id |-> seq + 1, name |-> name, url |-> url,
                     category_id |-> categoryID]},
     seq |-> seq]

InsertLink(cats, lnks, seq, name, url, categoryID) ==
    IF ForeignKeyViolation(cats, categoryID)
    THEN [err |-> err_io, rows |-> lnks, seq |-> seq]
    ELSE [err |-> err_none,
          rows |-> lnks \cup {[id |-> seq + 1, name |-> name, url |-> url,
                               category_id |-> categoryID]},
          seq |-> seq + 1]

\* UPDATE links SET name = ?, url = ?, category_id = ? WHERE id = ?
UpdateLink(cats, lnks, id, name, url, categoryID) ==
    IF (\E l \in lnks : l.id = id) /\ ForeignKeyViolation(cats, categoryID)
    THEN [err |-> err_io, rows |-> lnks]
    ELSE [err |-> err_none,
          rows |-> {IF l.id = id
                    THEN [id |-> id, name |-> name, url |-> url,
                          category_id |-> categoryID]
                    ELSE l : l \in lnks}]

\* DELETE FROM links WHERE id = ?
DeleteLink(lnks, id) == {l \in lnks : l.id # id}

\* DELETE FROM links WHERE category_id = ?
DeleteLinksOfCategory(lnks, categoryID) ==
    {l \in lnks : l.category_id # categoryID}

\* DELETE FROM categories WHERE id = ?  (ON DELETE CASCADE when enforced)
DeleteCategory(tables, categoryID) ==
    [categories |-> {c \in tables.categories : c.id # categoryID},
     links |-> IF ForeignKeysEnabled
               THEN DeleteLinksOfCategory(tables.links, categoryID)
               ELSE tables.links]

\* tx.Rollback(): the tables are those of before BeginTx
RollbackKeepsWork(before, work) == work

Rollback(before, work) == before

\* The orders in which a SELECT without ORDER BY may return a table's rows.
RECURSIVE RowOrders(_)
RowOrders(rows) ==
    IF rows = {} THEN {<<>>}
    ELSE UNION {{<<r>> \o rest : rest \in RowOrders(rows \ {r})} : r \in rows}

----------------------------------------------------------------------------
(* Dashboard Aggregator: getDashboardData *)

\* Capacity chosen by append when the slice is full (Go runtime, small slices).
\* The only member of a one-element set. Written Only({x : v \in {e}}), it
\* computes x with v bound to the value of e, evaluated once.
Only(S) == CHOOSE x \in S : TRUE

NewCap(oldCap, newLen) == IF newLen > 2 * oldCap THEN newLen ELSE 2 * oldCap

\* categories := make([]dashboardCategory, 0); categoryMap := make(map...)
\* arrays: every backing array allocated so far; cur: the one the slice
\* `categories` refers to; ptr: categoryMap, id -> <<array, index>>.
EmptySlice ==
    [arrays |-> << <<>> >>, cur |-> 1, len |-> 0, cap |-> 0, ptr |-> <<>>]

PtrLookup(ptr, id) == {p \in {ptr[i] : i \in 1..Len(ptr)} : p.id = id}

\* One iteration of the categoryRows loop:
\*   categories = append(categories, item)
\*   categoryMap[id] = &categories[len(categories)-1]
AppendCategory(sl, row) ==
    LET item == [ID |-> FormatInt(row.id), Name |-> row.name, Links |-> <<>>]
    IN  IF sl.len < sl.cap
        THEN [sl EXCEPT
                !.arrays[sl.cur] = Append(@, item),
                !.len = @ + 1,
                !.ptr = Append(@, [id |-> row.id, arr |-> sl.cur,
                                   idx |-> sl.len + 1])]
        ELSE [arrays |-> Append(sl.arrays, Append(sl.arrays[sl.cur], item)),
              cur |-> Len(sl.arrays) + 1,
              len |-> sl.len + 1,
              cap |-> NewCap(sl.cap, sl.len + 1),
              ptr |-> Append(sl.ptr, [id |-> row.id,
                                      arr |-> Len(sl.arrays) + 1,
                                      idx |-> sl.len + 1])]

RECURSIVE LoadCategories(_, _)
LoadCategories(sl, rows) ==
    IF rows = <<>> THEN sl
    ELSE Only({LoadCategories(nxt, Tail(rows)) :
                  nxt \in {AppendCategory(sl, Head(rows))}})

\* One iteration of the linkRows loop:
\*   if parentCategory, ok := categoryMap[categoryID]; ok {
\*       parentCategory.Links = append(parentCategory.Links, dashboardLink{...}) }
AttachLink(sl, row) ==
    LET hit == PtrLookup(sl.ptr, row.category_id)
    IN  IF hit = {} THEN sl
        ELSE LET p == CHOOSE q \in hit : TRUE
             IN  [sl EXCEPT !.arrays[p.arr][p.idx].Links =
                     Append(@, [ID |-> FormatInt(row.id),
                                CategoryID |-> FormatInt(row.category_id),
                                Name |-> row.name,
                                URL |-> row.url])]

RECURSIVE LoadLinks(_, _)
LoadLinks(sl, rows) ==
    IF rows = <<>> THEN sl
    ELSE Only({LoadLinks(nxt, Tail(rows)) :
                  nxt \in {AttachLink(sl, Head(rows))}})

\* less of both sort.Slice calls
NameLessBytes(a, b) == StrLess(a.Name, b.Name)

NameLess(a, b) == StrLess(ToLower(a.Name), ToLower(b.Name))

\* sort.Slice on fewer than 12 elements is an insertion sort:
\*   for i := a + 1; i < b; i++ {
\*       for j := i; j > a && less(j, j-1); j-- { swap(j, j-1) } }
RECURSIVE InsertSorted(_, _)
InsertSorted(sorted, x) ==
    IF sorted = <<>> THEN <<x>>
    ELSE IF NameLess(x, sorted[Len(sorted)])
         THEN Append(InsertSorted(SubSeq(sorted, 1, Len(sorted) - 1), x),
                     sorted[Len(sorted)])
         ELSE Append(sorted, x)

RECURSIVE SortFrom(_, _)
SortFrom(sorted, rest) ==
    IF rest = <<>> THEN sorted
    ELSE Only({SortFrom(nxt, Tail(rest)) :
                  nxt \in {InsertSorted(sorted, Head(rest))}})

SortByName(s) == Only({SortFrom(<<>>, v) : v \in {s}})

\* The tail of getDashboardData: both sorts, over the slice `categories`.
SortView(sl) ==
    Only({[i \in 1..Len(sorted) |-> [sorted[i] EXCEPT !.Links = SortByName(@)]] :
             sorted \in {SortByName(sl.arrays[sl.cur])}})

\* getDashboardData, given the rows the two queries return
getDashboardData(catRows, linkRows) ==
    SortView(LoadLinks(LoadCategories(EmptySlice, catRows), linkRows))

----------------------------------------------------------------------------
(* Requests *)

Join(a, b) == a \o <<47>> \o b

s_1   == <<49>>
s_2   == <<50>>
s_x   == <<120>>
s_foo == <<102, 111, 111>>
s_a   == <<97>>
s_B   == <<66>>
s_b   == <<98>>
s_u   == <<117>>

Request(h, m, p, n, u, c) ==
    [handler |-> h, method |-> m, path |-> p, name |-> n, url |-> u,
     category_id |-> c]

NoRequest == Request("none", "", <<>>, <<>>, <<>>, <<>>)

Methods == {"GET", "POST"}

\* form values of `name` for /actions/categories/create
CategoryNames == {<<>>, <<32>>, s_a, s_B, <<32>> \o s_b \o <<32>>}

\* what follows /actions/categories/ or /actions/links/ in the URL path
ActionPaths ==
    {Join(s_1, s_delete), Join(s_2, s_delete), Join(s_x, s_delete),
     <<47>> \o Join(s_1, s_delete) \o <<47>>,
     Join(s_1, s_update), Join(s_2, s_update), Join(s_x, s_update),
     Join(s_1, s_foo), Join(s_x, s_foo),
     s_1, s_x, <<>>, Join(Join(s_1, s_delete), s_x)}

\* name, url, category_id of /actions/links/create and /{id}/update
LinkForms ==
    {<<s_a, s_u, s_1>>, <<<<32>> \o s_B, s_u, s_1 \o <<32>>>>, <<s_a, s_u, s_2>>,
     <<<<32>>, s_u, s_1>>, <<s_a, <<>>, s_1>>, <<s_a, s_u, <<>>>>,
     <<s_a, s_u, s_x>>}

DashboardRequests == {Request("dashboard", m, <<>>, <<>>, <<>>, <<>>) : m \in Methods}

CreateCategoryRequests ==
    {Request("createCategory", "POST", <<>>, n, <<>>, <<>>) : n \in CategoryNames}
    \cup {Request("createCategory", "GET", <<>>, s_a, <<>>, <<>>)}

CategoryActionRequests ==
    {Request("categoryActions", "POST", p, <<>>, <<>>, <<>>) : p \in ActionPaths}
    \cup {Request("categoryActions", "GET", Join(s_1, s_delete), <<>>, <<>>, <<>>)}

CreateLinkRequests ==
    {Request("createLink", "POST", <<>>, f[1], f[2], f[3]) : f \in LinkForms}
    \cup {Request("createLink", "GET", <<>>, s_a, s_u, s_1)}

LinkActionRequests ==
    {Request("linkActions", "POST", p, f[1], f[2], f[3]) :
        p \in {Join(s_1, s_update), Join(s_2, s_update)}, f \in LinkForms}
    \cup {Request("linkActions", "POST", p, s_a, s_u, s_1) : p \in ActionPaths}
    \cup {Request("linkActions", "GET", Join(s_1, s_delete), <<>>, <<>>, <<>>)}

\* Store statements that may fail (I/O error, timeout) while a request is served
Faults ==
    {"none", "exec", "begin", "deleteLinks", "deleteCategory", "commit", "render"}

----------------------------------------------------------------------------
(* Handlers, up to their first store statement *)

\* handleCreateCategory: method, form, trimmed name
CheckCreateCategory(r) ==
    IF r.method # "POST" THEN 405
    ELSE IF TrimSpace(r.name) = <<>> THEN 400
    ELSE 0

\* handleCreateLink and handleUpdateLink: the three fields, then ParseInt
CheckLinkForm(r) ==
    IF TrimSpace(r.name) = <<>> \/ TrimSpace(r.url) = <<>>
       \/ TrimSpace(r.category_id) = <<>> THEN 400
    ELSE IF ~ParseInt(TrimSpace(r.category_id)).ok THEN 400
    ELSE 0

CheckCreateLink(r) == IF r.method # "POST" THEN 405 ELSE CheckLinkForm(r)

\* handleCategoryActions: method, path, id
RouteCategoryActionIdFirst(r) ==
    LET parts == SplitSlash(TrimSlashes(r.path))
    IN  IF r.method # "POST" THEN [status |-> 405, id |-> 0]
        ELSE IF Len(parts) # 2 THEN [status |-> 404, id |-> 0]
        ELSE IF ~ParseInt(parts[1]).ok THEN [status |-> 400, id |-> 0]
        ELSE IF parts[2] # s_delete THEN [status |-> 404, id |-> 0]
        ELSE [status |-> 0, id |-> ParseInt(parts[1]).val]

RouteCategoryAction(r) ==
    LET parts == SplitSlash(TrimSlashes(r.path))
    IN  IF r.method # "POST" THEN [status |-> 405, id |-> 0]
        ELSE IF Len(parts) # 2 \/ parts[2] # s_delete
             THEN [status |-> 404, id |-> 0]
        ELSE IF ~ParseInt(parts[1]).ok THEN [status |-> 400, id |-> 0]
        ELSE [status |-> 0, id |-> ParseInt(parts[1]).val]

\* handleLinkActions: method, path, id, then the switch on parts[1]
RouteLinkAction(r) ==
    LET parts == SplitSlash(TrimSlashes(r.path))
    IN  IF r.method # "POST" THEN [status |-> 405, id |-> 0, action |-> "none"]
        ELSE IF Len(parts) # 2 THEN [status |-> 404, id |-> 0, action |-> "none"]
        ELSE IF ~ParseInt(parts[1]).ok
             THEN [status |-> 400, id |-> 0, action |-> "none"]
        ELSE IF parts[2] = s_delete
             THEN [status |-> 0, id |-> ParseInt(parts[1]).val, action |-> "delete"]
        ELSE IF parts[2] = s_update
             THEN [status |-> IF CheckLinkForm(r) = 0 THEN 0 ELSE 400,
                   id |-> ParseInt(parts[1]).val, action |-> "update"]
        ELSE [status |-> 404, id |-> 0, action |-> "none"]

\* handleCreateCategory: the status for a failed insert
InsertErrorStatus(err) ==
    IF Contains(ToLower(err), s_unique) THEN 409 ELSE 500

----------------------------------------------------------------------------
(* Handlers, one request at a time *)

Tables == [categories |-> categories, links |-> links]

\* handleCategoryActions from BeginTx to Commit; f is the step that fails.
\* A failing statement changes nothing itself; the deferred Rollback undoes
\* the statements before it.
DeleteCategoryTx(before, id, f) ==
    LET w1 == [before EXCEPT !.links = DeleteLinksOfCategory(@, id)]
        w2 == DeleteCategory(w1, id)
    IN  IF f = "begin" THEN [ok |-> FALSE, tables |-> before]
        ELSE IF f = "deleteLinks"
             THEN [ok |-> FALSE, tables |-> Rollback(before, before)]
        ELSE IF f = "deleteCategory"
             THEN [ok |-> FALSE, tables |-> Rollback(before, w1)]
        ELSE IF f = "commit"
             THEN [ok |-> FALSE, tables |-> Rollback(before, w2)]
        ELSE [ok |-> TRUE, tables |-> w2]

\* renderDashboard: the response of every handler that got this far
renderDashboard(cats, lnks, f) ==
    IF f = "render"
    THEN /\ status' = 500
         /\ view' = <<>>
         /\ fault' = "render"
    ELSE \E catRows \in RowOrders(cats), linkRows \in RowOrders(lnks) :
            /\ status' = 200
            /\ view' = getDashboardData(catRows, linkRows)
            /\ fault' = "none"

\* http.Error / http.NotFound
httpError(code, f) ==
    /\ status' = code
    /\ view' = <<>>
    /\ fault' = f

Idle == status = 0

handleDashboard(r) ==
    /\ Idle
    /\ lastReq' = r
    /\ UNCHANGED <<storeVars, concVars>>
    /\ IF r.method # "GET" THEN httpError(405, "none")
       ELSE \E f \in {"none", "render"} : renderDashboard(categories, links, f)

handleCreateCategory(r) ==
    /\ Idle
    /\ lastReq' = r
    /\ UNCHANGED <<links, linkSeq, concVars>>
    /\ IF CheckCreateCategory(r) # 0
       THEN /\ httpError(CheckCreateCategory(r), "none")
            /\ UNCHANGED <<categories, catSeq>>
       ELSE \E f \in {"none", "exec", "render"} :
            LET ins == InsertCategory(categories, catSeq, TrimSpace(r.name))
            IN  IF f = "exec"
                THEN /\ httpError(InsertErrorStatus(err_io), f)
                     /\ UNCHANGED <<categories, catSeq>>
                ELSE IF ins.err # err_none
                THEN /\ httpError(InsertErrorStatus(ins.err), "none")
                     /\ UNCHANGED <<categories, catSeq>>
                ELSE /\ ins.seq + linkSeq <= MaxRows
                     /\ categories' = ins.rows
                     /\ catSeq' = ins.seq
                     /\ renderDashboard(ins.rows, links, f)

handleCategoryActions(r) ==
    /\ Idle
    /\ lastReq' = r
    /\ UNCHANGED <<catSeq, linkSeq, concVars>>
    /\ IF RouteCategoryAction(r).status # 0
       THEN /\ httpError(RouteCategoryAction(r).status, "none")
            /\ UNCHANGED <<categories, links>>
       ELSE \E f \in Faults \ {"exec"} :
            LET tx == DeleteCategoryTx(Tables, RouteCategoryAction(r).id, f)
            IN  /\ categories' = tx.tables.categories
                /\ links' = tx.tables.links
                /\ IF tx.ok
                   THEN renderDashboard(tx.tables.categories, tx.tables.links, f)
                   ELSE httpError(500, f)

handleCreateLink(r) ==
    /\ Idle
    /\ lastReq' = r
    /\ UNCHANGED <<categories, catSeq, concVars>>
    /\ IF CheckCreateLink(r) # 0
       THEN /\ httpError(CheckCreateLink(r), "none")
            /\ UNCHANGED <<links, linkSeq>>
       ELSE \E f \in {"none", "exec", "render"} :
            LET ins == InsertLink(categories, links, linkSeq, TrimSpace(r.name),
                                  TrimSpace(r.url),
                                  ParseInt(TrimSpace(r.category_id)).val)
            IN  IF f = "exec" \/ ins.err # err_none
                THEN /\ httpError(500, IF f = "exec" THEN f ELSE "none")
                     /\ UNCHANGED <<links, linkSeq>>
                ELSE /\ catSeq + ins.seq <= MaxRows
                     /\ links' = ins.rows
                     /\ linkSeq' = ins.seq
                     /\ renderDashboard(categories, ins.rows, f)

\* handleDeleteLink and handleUpdateLink, reached through handleLinkActions
handleLinkActions(r) ==
    /\ Idle
    /\ lastReq' = r
    /\ UNCHANGED <<categories, catSeq, linkSeq, concVars>>
    /\ IF RouteLinkAction(r).status # 0
       THEN /\ httpError(RouteLinkAction(r).status, "none")
            /\ UNCHANGED links
       ELSE \E f \in {"none", "exec", "render"} :
            LET id  == RouteLinkAction(r).id
                upd == UpdateLink(categories, links, id, TrimSpace(r.name),
                                  TrimSpace(r.url),
                                  ParseInt(TrimSpace(r.category_id)).val)
                new == IF RouteLinkAction(r).action = "delete"
                       THEN DeleteLink(links, id)
                       ELSE upd.rows
                bad == RouteLinkAction(r).action = "update" /\ upd.err # err_none
            IN  IF f = "exec" \/ bad
                THEN /\ httpError(500, IF f = "exec" THEN f ELSE "none")
                     /\ UNCHANGED links
                ELSE /\ links' = new
                     /\ renderDashboard(categories, new, f)

\* loggingMiddleware: ServeHTTP has returned, the request is logged and over
loggingMiddleware ==
    /\ status # 0
    /\ lastReq' = NoRequest
    /\ fault' = "none"
    /\ status' = 0
    /\ view' = <<>>
    /\ UNCHANGED <<storeVars, concVars>>

----------------------------------------------------------------------------
(* Workers: one goroutine per request, sharing the pool of one connection *)

\* Number of requests in flight together.
NumWorkers == 2

Workers == 1..NumWorkers

NoTx == [open |-> FALSE, tables |-> [categories |-> {}, links |-> {}]]
NoResp == 0

ConcIdle ==
    /\ pc = [w \in Workers |-> "idle"]
    /\ req = [w \in Workers |-> NoRequest]
    /\ cancelled = [w \in Workers |-> FALSE]
    /\ connOwner = 0
    /\ txWork = NoTx
    /\ catSnap = [w \in Workers |-> EmptySlice]
    /\ resp = [w \in Workers |-> NoResp]

----------------------------------------------------------------------------
(* One request at a time, from the empty store ensureSchema leaves *)

Init ==
    /\ categories = {}
    /\ links = {}
    /\ catSeq = 0
    /\ linkSeq = 0
    /\ lastReq = NoRequest
    /\ fault = "none"
    /\ status = 0
    /\ view = <<>>
    /\ ConcIdle

Next ==
    \/ \E r \in DashboardRequests : handleDashboard(r)
    \/ \E r \in CreateCategoryRequests : handleCreateCategory(r)
    \/ \E r \in CategoryActionRequests : handleCategoryActions(r)
    \/ \E r \in CreateLinkRequests : handleCreateLink(r)
    \/ \E r \in LinkActionRequests : handleLinkActions(r)
    \/ loggingMiddleware

Spec == Init /\ [][Next]_vars

----------------------------------------------------------------------------
(* Properties of the handlers, one request at a time *)

Parts(r) == SplitSlash(TrimSlashes(r.path))

TxFaults == {"begin", "deleteLinks", "deleteCategory", "commit"}

IsCategoryDelete(r) ==
    r.handler = "categoryActions" /\ RouteCategoryAction(r).status = 0

\* C1: a category delete that commits removes the category row, every link
\* whose category_id is its id and nothing else; one whose transaction fails
\* at any step answers 500 and leaves both tables as they were.
C1_DeleteCategoryAllOrNothing ==
    [][IsCategoryDelete(lastReq') =>
         LET id == RouteCategoryAction(lastReq').id
         IN  IF fault' \in TxFaults
             THEN /\ status' = 500
                  /\ categories' = categories
                  /\ links' = links
             ELSE /\ categories' = {c \in categories : c.id # id}
                  /\ links' = {l \in links : l.category_id # id}]_vars

\* A delete of a category that owns a link failed after its links were
\* deleted inside the transaction; the links and the category are there.
C1_Witness ==
    /\ IsCategoryDelete(lastReq)
    /\ fault = "deleteCategory"
    /\ status = 500
    /\ \E c \in categories : c.id = RouteCategoryAction(lastReq).id
    /\ \E l \in links : l.category_id = RouteCategoryAction(lastReq).id
    /\ \E l \in links : l.category_id # RouteCategoryAction(lastReq).id

ViewLink(l) ==
    [ID |-> FormatInt(l.id), CategoryID |-> FormatInt(l.category_id),
     Name |-> l.name, URL |-> l.url]

Range(s) == {s[i] : i \in 1..Len(s)}

\* The view v shows exactly the tables cats and lnks, joined.
ViewIsJoin(v, cats, lnks) ==
    /\ Len(v) = Cardinality(cats)
    /\ \A c \in cats :
          \E i \in 1..Len(v) :
             /\ v[i].ID = FormatInt(c.id)
             /\ v[i].Name = c.name
             /\ Range(v[i].Links) =
                   {ViewLink(l) : l \in {k \in lnks : k.category_id = c.id}}
             /\ Len(v[i].Links) =
                   Cardinality({k \in lnks : k.category_id = c.id})

\* C2: a rendered view holds every stored category exactly once, each with
\* exactly the stored links whose category_id is its id.
C2_ViewIsStoreJoin == status = 200 => ViewIsJoin(view, categories, links)

\* C3: every stored link's category_id is the id of a stored category.
C3_LinksReferenceCategories ==
    \A l \in links : \E c \in categories : c.id = l.category_id

IsCategoryCreate(r) ==
    r.handler = "createCategory" /\ CheckCreateCategory(r) = 0

\* C4 as claimed: a create whose trimmed name equals an existing name
\* ignoring case is answered 409 and inserts nothing, and no two stored
\* names are equal ignoring case.
C4_Original ==
    [][/\ (/\ IsCategoryCreate(lastReq')
           /\ fault' = "none"
           /\ \E c \in categories :
                 ToLower(c.name) = ToLower(TrimSpace(lastReq'.name)))
          => (status' = 409 /\ categories' = categories /\ catSeq' = catSeq)
       /\ \A c, d \in categories' :
             c.id # d.id => ToLower(c.name) # ToLower(d.name)]_vars

\* C4 amended: a create whose trimmed name equals an existing name byte for
\* byte is answered 409 and inserts nothing, and no two stored names are
\* equal byte for byte.
C4_ExactDuplicateRejected ==
    [][/\ (/\ IsCategoryCreate(lastReq')
           /\ fault' = "none"
           /\ \E c \in categories : c.name = TrimSpace(lastReq'.name))
          => (status' = 409 /\ categories' = categories /\ catSeq' = catSeq)
       /\ \A c, d \in categories' : c.id # d.id => c.name # d.name]_vars

\* A create was answered 409 for a name the store holds, given with spaces.
C4_Witness ==
    /\ IsCategoryCreate(lastReq)
    /\ status = 409
    /\ lastReq.name # TrimSpace(lastReq.name)
    /\ \E c \in categories : c.name = TrimSpace(lastReq.name)

Ascending(s) ==
    \A i, j \in 1..Len(s) :
       i < j => ~StrLess(ToLower(s[j].Name), ToLower(s[i].Name))

\* C7: in a rendered view the categories, and the links of each category,
\* are in ascending order of their lower-cased names.
C7_ViewSorted ==
    status = 200 =>
       /\ Ascending(view)
       /\ \A i \in 1..Len(view) : Ascending(view[i].Links)

\* A view of two categories and of two links in one category, whose order
\* by lower-cased name is the reverse of their order by bytes.
C7_Witness ==
    /\ status = 200
    /\ Len(view) = 2
    /\ StrLess(view[2].Name, view[1].Name)
    /\ \E i \in 1..2 :
          /\ Len(view[i].Links) = 2
          /\ StrLess(view[i].Links[2].Name, view[i].Links[1].Name)

\* A POST under /actions/categories/ or /actions/links/ whose path is not
\* {id}/delete (or, for links, {id}/update)
IsUnmatchedAction(r) ==
    /\ r.method = "POST"
    /\ \/ /\ r.handler = "categoryActions"
          /\ ~(Len(Parts(r)) = 2 /\ Parts(r)[2] = s_delete)
       \/ /\ r.handler = "linkActions"
          /\ ~(Len(Parts(r)) = 2 /\ Parts(r)[2] \in {s_delete, s_update})

\* C8 as claimed: an unmatched action path is answered 404, store unchanged.
C8_Original ==
    [][IsUnmatchedAction(lastReq') =>
         /\ status' = 404
         /\ UNCHANGED storeVars]_vars

\* C8 amended: an unmatched action path leaves the store unchanged and is
\* answered 404, except that under /actions/links/ a path of two segments
\* whose first is not an integer is answered 400.
C8_UnmatchedPath ==
    [][IsUnmatchedAction(lastReq') =>
         /\ status' = IF /\ lastReq'.handler = "linkActions"
                         /\ Len(Parts(lastReq')) = 2
                         /\ ~ParseInt(Parts(lastReq')[1]).ok
                      THEN 400 ELSE 404
         /\ UNCHANGED storeVars]_vars

\* Both handlers answered an unmatched path with a non-numeric first segment
\* while the store held rows: here the link handler, with 400.
C8_Witness ==
    /\ IsUnmatchedAction(lastReq)
    /\ lastReq.handler = "linkActions"
    /\ Len(Parts(lastReq)) = 2
    /\ ~ParseInt(Parts(lastReq)[1]).ok
    /\ status = 400
    /\ links # {}

----------------------------------------------------------------------------
(* Concurrent requests, statement by statement *)

\* The store the concurrent requests start from: one category, two links.
SeedCategories == {[id |-> 1, name |-> s_a]}

SeedLinks ==
    {[id |-> 1, name |-> s_a, url |-> s_u, category_id |-> 1],
     [id |-> 2, name |-> s_B, url |-> s_u, category_id |-> 1]}

ConcRequests ==
    {Request("dashboard", "GET", <<>>, <<>>, <<>>, <<>>),
     Request("createCategory", "POST", <<>>, s_B, <<>>, <<>>),
     Request("categoryActions", "POST", Join(s_1, s_delete), <<>>, <<>>, <<>>),
     Request("createLink", "POST", <<>>, s_a, s_u, s_1),
     Request("createLink", "POST", <<>>, s_b, s_u, s_1),
     Request("linkActions", "POST", Join(s_1, s_delete), <<>>, <<>>, <<>>),
     Request("linkActions", "POST", Join(s_2, s_update), s_b, s_u, s_1)}

\* The status a handler answers before any statement (0: none), and the
\* position of its first statement.
FirstStep(r) ==
    IF r.handler = "dashboard"
    THEN [status |-> IF r.method # "GET" THEN 405 ELSE 0, pc |-> "catQuery"]
    ELSE IF r.handler = "createCategory"
    THEN [status |-> CheckCreateCategory(r), pc |-> "exec"]
    ELSE IF r.handler = "categoryActions"
    THEN [status |-> RouteCategoryAction(r).status, pc |-> "begin"]
    ELSE IF r.handler = "createLink"
    THEN [status |-> CheckCreateLink(r), pc |-> "exec"]
    ELSE [status |-> RouteLinkAction(r).status, pc |-> "exec"]

\* The context a statement runs under: handlers derive theirs from
\* r.Context(); renderDashboard passes context.Background().
StmtContext(at) ==
    IF at \in {"catQuery", "catRows", "linkQuery"}
    THEN "background"
    ELSE "request"

\* A statement at position `at` of worker w can succeed only while the
\* context it runs under is not done.
ContextLive(w, at) == StmtContext(at) = "request" => ~cancelled[w]

\* Positions at which a handler asks the pool for the connection
AskingPcs == {"exec", "begin", "catQuery", "linkQuery"}

Answer(w, r, code, v) ==
    /\ pc' = [pc EXCEPT ![w] = "done"]
    /\ resp' = [resp EXCEPT ![w] = code]
    /\ lastReq' = r
    /\ status' = code
    /\ view' = v
    /\ UNCHANGED fault

Continue(w, at) ==
    /\ pc' = [pc EXCEPT ![w] = at]
    /\ UNCHANGED <<resp, seqVars>>

\* ServeHTTP is entered with request r
Receive(w, r) ==
    /\ pc[w] = "idle"
    /\ req' = [req EXCEPT ![w] = r]
    /\ IF FirstStep(r).status # 0
       THEN Answer(w, r, FirstStep(r).status, <<>>)
       ELSE /\ pc' = [pc EXCEPT ![w] = FirstStep(r).pc]
            /\ UNCHANGED <<resp, seqVars>>
    /\ UNCHANGED <<storeVars, cancelled, connOwner, txWork, catSnap>>

\* The client goes away: r.Context() is cancelled
Disconnect(w) ==
    /\ pc[w] \notin {"idle", "done"}
    /\ ~cancelled[w]
    /\ cancelled' = [cancelled EXCEPT ![w] = TRUE]
    /\ UNCHANGED <<storeVars, seqVars, pc, req, connOwner, txWork, catSnap, resp>>

\* s.db.ExecContext(ctx, ...) of the four single-statement handlers: the
\* connection is taken, the statement run and the connection put back.
Exec(w) ==
    /\ pc[w] = "exec"
    /\ connOwner = 0
    /\ ContextLive(w, "exec")
    /\ \E r \in {req[w]} :
       \E name \in {TrimSpace(r.name)}, url \in {TrimSpace(r.url)},
          cid \in {ParseInt(TrimSpace(r.category_id)).val},
          route \in {RouteLinkAction(r)} :
          IF r.handler = "createCategory"
          THEN \E ins \in {InsertCategory(categories, catSeq, name)} :
                  /\ categories' = ins.rows
                  /\ catSeq' = ins.seq
                  /\ UNCHANGED <<links, linkSeq>>
                  /\ IF ins.err # err_none
                     THEN Answer(w, r, InsertErrorStatus(ins.err), <<>>)
                     ELSE Continue(w, "catQuery")
          ELSE IF r.handler = "createLink"
          THEN \E ins \in {InsertLink(categories, links, linkSeq,
                                      name, url, cid)} :
                  /\ links' = ins.rows
                  /\ linkSeq' = ins.seq
                  /\ UNCHANGED <<categories, catSeq>>
                  /\ IF ins.err # err_none
                     THEN Answer(w, r, 500, <<>>)
                     ELSE Continue(w, "catQuery")
          ELSE IF route.action = "delete"
          THEN /\ links' = DeleteLink(links, route.id)
               /\ UNCHANGED <<categories, catSeq, linkSeq>>
               /\ Continue(w, "catQuery")
          ELSE \E upd \in {UpdateLink(categories, links, route.id,
                                      name, url, cid)} :
                  /\ links' = upd.rows
                  /\ UNCHANGED <<categories, catSeq, linkSeq>>
                  /\ IF upd.err # err_none
                     THEN Answer(w, r, 500, <<>>)
                     ELSE Continue(w, "catQuery")
    /\ UNCHANGED <<req, cancelled, connOwner, txWork, catSnap>>

\* tx, err := s.db.BeginTx(ctx, nil): the transaction keeps the connection
BeginTx(w) ==
    /\ pc[w] = "begin"
    /\ connOwner = 0
    /\ ContextLive(w, "begin")
    /\ connOwner' = w
    /\ txWork' = [open |-> TRUE, tables |-> Tables]
    /\ pc' = [pc EXCEPT ![w] = "deleteLinks"]
    /\ UNCHANGED <<storeVars, seqVars, req, cancelled, catSnap, resp>>

\* tx.ExecContext(ctx, `DELETE FROM links WHERE category_id = ?`, categoryID)
TxDeleteLinks(w) ==
    /\ pc[w] = "deleteLinks"
    /\ ContextLive(w, "deleteLinks")
    /\ txWork' = [txWork EXCEPT !.tables.links =
                     DeleteLinksOfCategory(@, RouteCategoryAction(req[w]).id)]
    /\ pc' = [pc EXCEPT ![w] = "deleteCategory"]
    /\ UNCHANGED <<storeVars, seqVars, req, cancelled, connOwner, catSnap, resp>>

\* tx.ExecContext(ctx, `DELETE FROM categories WHERE id = ?`, categoryID)
TxDeleteCategory(w) ==
    /\ pc[w] = "deleteCategory"
    /\ ContextLive(w, "deleteCategory")
    /\ txWork' = [txWork EXCEPT !.tables =
                     DeleteCategory(@, RouteCategoryAction(req[w]).id)]
    /\ pc' = [pc EXCEPT ![w] = "commit"]
    /\ UNCHANGED <<storeVars, seqVars, req, cancelled, connOwner, catSnap, resp>>

\* tx.Commit()
Commit(w) ==
    /\ pc[w] = "commit"
    /\ ContextLive(w, "commit")
    /\ categories' = txWork.tables.categories
    /\ links' = txWork.tables.links
    /\ txWork' = NoTx
    /\ connOwner' = 0
    /\ pc' = [pc EXCEPT ![w] = "catQuery"]
    /\ UNCHANGED <<catSeq, linkSeq, seqVars, req, cancelled, catSnap, resp>>

\* A statement under the request's context returns an error: the context is
\* done (client gone, 8 s elapsed) or the store fails. The handler answers
\* 500 and returns; its deferred tx.Rollback() ends an open transaction.
StmtFail(w) ==
    /\ pc[w] \in {"exec", "begin", "deleteLinks", "deleteCategory", "commit"}
    /\ IF connOwner = w
       THEN /\ categories' = Rollback(Tables, txWork.tables).categories
            /\ links' = Rollback(Tables, txWork.tables).links
            /\ txWork' = NoTx
            /\ connOwner' = 0
       ELSE UNCHANGED <<categories, links, txWork, connOwner>>
    /\ Answer(w, req[w], 500, <<>>)
    /\ UNCHANGED <<catSeq, linkSeq, req, cancelled, catSnap>>

\* categoryRows, err := s.db.QueryContext(ctx, `SELECT id, name FROM
\* categories`) and the loop over categoryRows.Next()
CatQuery(w) ==
    /\ pc[w] = "catQuery"
    /\ ContextLive(w, "catQuery")
    /\ connOwner = 0
    /\ connOwner' = w
    /\ \E rows \in RowOrders(categories) :
          catSnap' = [catSnap EXCEPT ![w] = LoadCategories(EmptySlice, rows)]
    /\ pc' = [pc EXCEPT ![w] = "catRows"]
    /\ UNCHANGED <<storeVars, seqVars, req, cancelled, txWork, resp>>

\* categoryRows.Next() has returned false: the result set is closed and
\* its connection goes back to the pool
CatRowsCloseLeak(w) ==
    /\ pc[w] = "catRows"
    /\ ContextLive(w, "catRows")
    /\ pc' = [pc EXCEPT ![w] = "linkQuery"]
    /\ UNCHANGED <<storeVars, seqVars, req, cancelled, connOwner, txWork,
                   catSnap, resp>>

CatRowsClose(w) ==
    /\ pc[w] = "catRows"
    /\ ContextLive(w, "catRows")
    /\ connOwner' = 0
    /\ pc' = [pc EXCEPT ![w] = "linkQuery"]
    /\ UNCHANGED <<storeVars, seqVars, req, cancelled, txWork, catSnap, resp>>

\* linkRows, err := s.db.QueryContext(ctx, `SELECT id, name, url,
\* category_id FROM links`), the loop over linkRows.Next() to its end (which
\* closes the result set and frees the connection), both sorts and the
\* template
LinkQuery(w) ==
    /\ pc[w] = "linkQuery"
    /\ ContextLive(w, "linkQuery")
    /\ connOwner = 0
    /\ catSnap' = [catSnap EXCEPT ![w] = EmptySlice]
    /\ UNCHANGED <<storeVars, req, cancelled, connOwner, txWork>>
    /\ \E rows \in RowOrders(links) :
          Answer(w, req[w], 200, SortView(LoadLinks(catSnap[w], rows)))

\* A query of getDashboardData, or a Scan of its rows, returns an error
\* (8 s elapsed, store failure): 500, and the deferred Close gives the
\* connection back.
QueryFail(w) ==
    /\ pc[w] \in {"catQuery", "catRows", "linkQuery"}
    /\ connOwner' = IF connOwner = w THEN 0 ELSE connOwner
    /\ Answer(w, req[w], 500, <<>>)
    /\ catSnap' = [catSnap EXCEPT ![w] = EmptySlice]
    /\ UNCHANGED <<storeVars, req, cancelled, txWork>>

\* The steps of worker w that are not failures
Progress(w) ==
    \/ Exec(w)
    \/ BeginTx(w)
    \/ TxDeleteLinks(w)
    \/ TxDeleteCategory(w)
    \/ Commit(w)
    \/ CatQuery(w)
    \/ CatRowsClose(w)
    \/ LinkQuery(w)

ConcInit ==
    /\ categories = SeedCategories
    /\ links = SeedLinks
    /\ catSeq = 1
    /\ linkSeq = 2
    /\ lastReq = NoRequest
    /\ fault = "none"
    /\ status = 0
    /\ view = <<>>
    /\ ConcIdle

ConcNext ==
    \E w \in Workers :
       \/ \E r \in ConcRequests : Receive(w, r)
       \/ Progress(w)
       \/ StmtFail(w)
       \/ QueryFail(w)

ConcSpec == ConcInit /\ [][ConcNext]_vars

\* The same, with clients that may go away while they are served
CancelNext == ConcNext \/ \E w \in Workers : Disconnect(w)

CancelSpec == ConcInit /\ [][CancelNext]_vars

\* Every worker that can take a step that is not a failure eventually takes
\* one: the Go scheduler runs every runnable goroutine.
FairConcSpec == ConcSpec /\ \A w \in Workers : WF_vars(Progress(w))

----------------------------------------------------------------------------
(* Properties of concurrent requests *)

Asking(w) == pc[w] \in AskingPcs

\* C10: a handler that asks the pool for the connection does not hold it,
\* every request that was received is answered, and whenever the connection
\* is taken it is given back.
C10_NoSelfWaitAndProgress ==
    /\ [](\A w \in Workers : Asking(w) => connOwner # w)
    /\ \A w \in Workers : (pc[w] # "idle") ~> (pc[w] = "done")
    /\ (connOwner # 0) ~> (connOwner = 0)

\* A re-render waits for the connection while another request's delete
\* transaction holds it.
C10_Witness ==
    \E w, v \in Workers :
       /\ w # v
       /\ pc[w] = "linkQuery"
       /\ connOwner = v
       /\ txWork.open

\* The category the concurrent requests start with, and the links it owns.
SeedCategoryID == FormatInt((CHOOSE c \in SeedCategories : TRUE).id)

SeedLinkIDs == {FormatInt(l.id) : l \in SeedLinks}

IsRender(r) == r.handler = "dashboard"

IsSeedCategoryDelete(r) ==
    /\ r.handler = "categoryActions"
    /\ RouteCategoryAction(r).status = 0
    /\ FormatInt(RouteCategoryAction(r).id) = SeedCategoryID

\* Only renders and one delete of the seed category are in flight.
DeleteAmongRenders ==
    /\ \A w \in Workers :
          req[w] = NoRequest \/ IsRender(req[w]) \/ IsSeedCategoryDelete(req[w])
    /\ Cardinality({w \in Workers : IsSeedCategoryDelete(req[w])}) <= 1

\* C5: while a delete of a category runs among dashboard renders, every
\* rendered view shows the category with all the links it owned before the
\* delete, or does not show the category at all.
C5_NoPartialDelete ==
    (DeleteAmongRenders /\ status = 200) =>
        \A i \in 1..Len(view) :
           view[i].ID = SeedCategoryID =>
              {view[i].Links[k].ID : k \in 1..Len(view[i].Links)} = SeedLinkIDs

IsCreateLink(r) == r.handler = "createLink"

\* Workers whose INSERT INTO links has succeeded
Inserted(w) ==
    /\ IsCreateLink(req[w])
    /\ \/ pc[w] \in {"catQuery", "catRows", "linkQuery"}
       \/ pc[w] = "done" /\ resp[w] = 200

Creators == {w \in Workers : Inserted(w)}

RowOf(l, r) ==
    /\ l.name = TrimSpace(r.name)
    /\ l.url = TrimSpace(r.url)
    /\ FormatInt(l.category_id) = TrimSpace(r.category_id)

\* C6: when only create-link requests are in flight, each one whose insert
\* has succeeded has a row of its own in the store, with its own id and the
\* name, url and category_id it submitted.
C6_BothInsertsPersist ==
    (\A w \in Workers : req[w] = NoRequest \/ IsCreateLink(req[w])) =>
        \E f \in [Creators -> links \ SeedLinks] :
           /\ \A w \in Creators : RowOf(f[w], req[w])
           /\ \A w, v \in Creators : w # v => f[w].id # f[v].id

\* Every worker served a create-link request to its end, two of them the
\* same form, and the store holds one new row for each.
C6_Witness ==
    /\ \A w \in Workers : IsCreateLink(req[w]) /\ pc[w] = "done" /\ resp[w] = 200
    /\ \E w, v \in Workers : w # v /\ req[w] = req[v]
    /\ Cardinality(links) = Cardinality(SeedLinks) + NumWorkers

\* Positions at which a statement of the request is in flight
StatementPcs ==
    {"exec", "begin", "deleteLinks", "deleteCategory", "commit",
     "catQuery", "catRows", "linkQuery"}

\* C9: once the client of a request has gone away, no statement of that
\* request completes: the handler's only step is to answer 500.
C9_DisconnectCancels ==
    [][\A w \in Workers :
          (cancelled[w] /\ pc[w] \in StatementPcs /\ pc'[w] # pc[w]) =>
              (pc'[w] = "done" /\ resp'[w] = 500)]_vars

====
